---------------------------- MODULE Spec2Model ----------------------------
(***************************************************************************)
(* The Protege.ai relational schema (src/models.py) as a store and the     *)
(* operations a SQLAlchemy session issues against it.                      *)
(*                                                                         *)
(* The schema is data, as in the source: ForeignKeys holds one entry per   *)
(* ForeignKey(...) column, UniqueConstraints one per unique=True /         *)
(* UniqueConstraint(...), Relationships one per one-to-many                *)
(* relationship(..., cascade=...).  The store enforces what the schema     *)
(* declares: primary keys, unique constraints, foreign keys and their      *)
(* ON DELETE action (a database that enforces foreign keys: PostgreSQL, or *)
(* SQLite with PRAGMA foreign_keys=ON).  Nothing else is enforced, because *)
(* the source declares nothing else (no CHECK constraint, no trigger, no   *)
(* validator, no event listener).                                          *)
(*                                                                         *)
(* Columns that no constraint, default or relationship reads (amounts,     *)
(* dates, free text) are left out of the rows, except                      *)
(* card_transactions.amount, which stands for "the other fields".          *)
(***************************************************************************)
EXTENDS Integers, FiniteSets, Sequences, TLC

VARIABLES db,        \* table name -> set of rows currently stored
          result,    \* outcome of the last statement: "ok", or the constraint
                     \* the IntegrityError it raised names
          last,      \* the last statement: its kind and the rows it removed
          enumCols,  \* Enum column -> the string the database last stored in it
          enumIO,    \* the last Enum attribute written: its column, the member
                     \* assigned and the member loaded back since
          jobs       \* refresh job -> its position, the fact it fetched and
                     \* the outcome of its write

vars == <<db, result, last, enumCols, enumIO, jobs>>

---------------------------------------------------------------------------
(* Bounds of the model *)

MaxId == 2            \* surrogate keys are drawn from 1..MaxId
MaxRows == 3          \* rows in the whole store (specification Spec)
MaxClusterRows == 4   \* rows in the store when one cluster is exercised
MaxBillingRows == 5   \* rows in the store when two cards are billed
MaxTime == 2          \* timestamps are drawn from 1..MaxTime
MaxInstallment == 2   \* installment numbers are drawn from 0..MaxInstallment

\* nullable=True: the SQL NULL of a nullable column (ids and timestamps start at 1)
NULL == 0

Ids == 1 .. MaxId
Times == 1 .. MaxTime

---------------------------------------------------------------------------
(* Enumerations: class -> sequence of members, in declaration order.  A
   member has a name (the Python identifier) and a value (the string on the
   right of the assignment); its ordinal is its position. *)

MaritalStatus ==
  << [name |-> "SINGLE",   value |-> "single"],
     [name |-> "MARRIED",  value |-> "married"],
     [name |-> "DIVORCED", value |-> "divorced"],
     [name |-> "WIDOWED",  value |-> "widowed"],
     [name |-> "OTHER",    value |-> "other"] >>

AccountType ==
  << [name |-> "CHECKING", value |-> "checking"],
     [name |-> "SAVINGS",  value |-> "savings"],
     [name |-> "PREPAID",  value |-> "prepaid"],
     [name |-> "PAYMENT",  value |-> "payment"] >>

CardProductType ==
  << [name |-> "CREDIT", value |-> "credit"],
     [name |-> "DEBIT",  value |-> "debit"],
     [name |-> "HYBRID", value |-> "hybrid"] >>

CreditProductType ==
  << [name |-> "LOAN",      value |-> "loan"],
     [name |-> "FINANCING", value |-> "financing"],
     [name |-> "OVERDRAFT", value |-> "overdraft"] >>

PaymentStatus ==
  << [name |-> "PENDING",   value |-> "pending"],
     [name |-> "COMPLETED", value |-> "completed"],
     [name |-> "FAILED",    value |-> "failed"],
     [name |-> "CANCELLED", value |-> "cancelled"] >>

Members(enum) == {enum[i] : i \in 1 .. Len(enum)}

\* Column(Enum(<class>)) with no values_callable: the bind processor of
\* sqlalchemy.Enum writes the member's NAME to the column.
EnumBind(member) == member.name

\* The result processor of the same type: looks the stored string up among
\* the member names of the class.  NoMember stands for the LookupError.
NoMember == [name |-> "LookupError", value |-> "LookupError"]

EnumResult(enum, stored) ==
  IF \E m \in Members(enum) : m.name = stored
    THEN CHOOSE m \in Members(enum) : m.name = stored
    ELSE NoMember

PENDING == PaymentStatus[1]
COMPLETED == PaymentStatus[2]
FAILED == PaymentStatus[3]
CANCELLED == PaymentStatus[4]

---------------------------------------------------------------------------
(* The schema *)

Tables ==
  { "customer_core", "customer_contacts",
    "accounts", "account_balances", "account_transactions",
    "cards", "card_invoices", "card_transactions",
    "credit_contracts", "credit_schedules", "collaterals",
    "positions_funds", "positions_fixed_income", "positions_equity",
    "positions_treasury", "investment_movements",
    "fx_operations", "consents", "consent_scopes", "payment_orders" }

\* Values of the natural keys
TaxIds == {"123.456.789-00", "987.654.321-00"}
CardNumbers == {"4111-0001", "4111-0002"}
Instruments == {"INSTR-A", "INSTR-B"}

\* The rows a caller can present to a table: its columns and their domains.
Rows(t) ==
  CASE t = "customer_core" -> [id : Ids, tax_id : TaxIds]
    [] t = "customer_contacts" -> [id : Ids, customer_id : Ids]
    [] t = "accounts" -> [id : Ids, customer_id : Ids]
    [] t = "account_balances" -> [id : Ids, account_id : Ids, as_of : Times]
    [] t = "account_transactions" ->
         [id : Ids, account_id : Ids, posting_date : Times]
    [] t = "cards" -> [id : Ids, customer_id : Ids, card_number : CardNumbers]
    [] t = "card_invoices" -> [id : Ids, card_id : Ids]
    [] t = "card_transactions" ->
         [id : Ids, card_id : Ids, invoice_id : Ids \cup {NULL}, amount : {100}]
    [] t = "credit_contracts" -> [id : Ids, customer_id : Ids]
    [] t = "credit_schedules" ->
         [id : Ids, contract_id : Ids, installment_number : 0 .. MaxInstallment]
    [] t = "collaterals" -> [id : Ids, contract_id : Ids]
    [] t = "positions_funds" -> [id : Ids, customer_id : Ids, fund_cnpj : Instruments]
    [] t = "positions_fixed_income" ->
         [id : Ids, customer_id : Ids, instrument_id : Instruments]
    [] t = "positions_equity" -> [id : Ids, customer_id : Ids, ticker : Instruments]
    [] t = "positions_treasury" ->
         [id : Ids, customer_id : Ids, instrument_id : Instruments]
    [] t = "investment_movements" -> [id : Ids, customer_id : Ids]
    [] t = "fx_operations" -> [id : Ids, customer_id : Ids]
    [] t = "consents" -> [id : Ids, customer_id : Ids]
    [] t = "consent_scopes" -> [id : Ids, consent_id : Ids]
    [] t = "payment_orders" ->
         [id : Ids, customer_id : Ids,
          status : {EnumBind(m) : m \in Members(PaymentStatus)},
          completed_at : Times \cup {NULL}]

FK(t, c, p, od) == [table |-> t, column |-> c, parent |-> p, ondelete |-> od]

\* Every ForeignKey(...) of the schema with its ondelete action
ForeignKeys ==
  { FK("customer_contacts", "customer_id", "customer_core", "CASCADE"),
    FK("accounts", "customer_id", "customer_core", "CASCADE"),
    FK("account_balances", "account_id", "accounts", "CASCADE"),
    FK("account_transactions", "account_id", "accounts", "CASCADE"),
    FK("cards", "customer_id", "customer_core", "CASCADE"),
    FK("card_invoices", "card_id", "cards", "CASCADE"),
    FK("card_transactions", "card_id", "cards", "CASCADE"),
    FK("card_transactions", "invoice_id", "card_invoices", "SET NULL"),
    FK("credit_contracts", "customer_id", "customer_core", "CASCADE"),
    FK("credit_schedules", "contract_id", "credit_contracts", "CASCADE"),
    FK("collaterals", "contract_id", "credit_contracts", "CASCADE"),
    FK("positions_funds", "customer_id", "customer_core", "CASCADE"),
    FK("positions_fixed_income", "customer_id", "customer_core", "CASCADE"),
    FK("positions_equity", "customer_id", "customer_core", "CASCADE"),
    FK("positions_treasury", "customer_id", "customer_core", "CASCADE"),
    FK("investment_movements", "customer_id", "customer_core", "CASCADE"),
    FK("fx_operations", "customer_id", "customer_core", "CASCADE"),
    FK("consents", "customer_id", "customer_core", "CASCADE"),
    FK("consent_scopes", "consent_id", "consents", "CASCADE"),
    FK("payment_orders", "customer_id", "customer_core", "CASCADE") }

\* unique=True columns and the UniqueConstraint of AccountBalance, each with
\* the name the database reports when it is violated
UQ(n, t, cs) == [name |-> n, table |-> t, columns |-> cs]

UniqueConstraints ==
  { UQ("customer_core.tax_id", "customer_core", {"tax_id"}),
    UQ("cards.card_number", "cards", {"card_number"}),
    UQ("uix_account_balance_as_of", "account_balances", {"account_id", "as_of"}) }

\* Every one-to-many relationship(..., cascade="all, delete-orphan"): the
\* parent class's table, the child class's table and the child's column
\* that joins them.  The many-to-one sides carry no cascade.
REL(p, t, c) == [parent |-> p, table |-> t, column |-> c]

Relationships ==
  { REL("customer_core", "customer_contacts", "customer_id"),    \* contacts
    REL("customer_core", "accounts", "customer_id"),             \* accounts
    REL("customer_core", "cards", "customer_id"),                \* cards
    REL("customer_core", "credit_contracts", "customer_id"),     \* credit_contracts
    REL("customer_core", "positions_funds", "customer_id"),      \* investment_positions
    REL("customer_core", "fx_operations", "customer_id"),        \* fx_operations
    REL("customer_core", "consents", "customer_id"),             \* consents
    REL("customer_core", "payment_orders", "customer_id"),       \* payment_orders
    REL("accounts", "account_balances", "account_id"),           \* Account.balances
    REL("accounts", "account_transactions", "account_id"),       \* Account.transactions
    REL("cards", "card_invoices", "card_id"),                    \* Card.invoices
    REL("cards", "card_transactions", "card_id"),                \* Card.transactions
    REL("card_invoices", "card_transactions", "invoice_id"),     \* CardInvoice.transactions
    REL("credit_contracts", "credit_schedules", "contract_id"),  \* schedules
    REL("credit_contracts", "collaterals", "contract_id"),       \* collaterals
    REL("consents", "consent_scopes", "consent_id") }            \* Consent.scopes

---------------------------------------------------------------------------
(* The store *)

EmptyStore == [t \in Tables |-> {}]

RowCount(d) == Cardinality(UNION {{<<t, r.id>> : r \in d[t]} : t \in Tables})

Exists(d, t, id) == \E r \in d[t] : r.id = id

\* id = Column(Integer, primary_key=True): no second row with the same id
PrimaryKeyViolations(d, t, r) ==
  IF Exists(d, t, r.id) THEN {"PRIMARY KEY"} ELSE {}

\* Faulty variants: only the unique=True columns are enforced; only the
\* UniqueConstraint(...) of __table_args__ is enforced.
UniqueViolationsColumnsOnly(d, t, r, self) ==
  { u.name : u \in { x \in UniqueConstraints :
                       /\ x.table = t
                       /\ Cardinality(x.columns) = 1
                       /\ \E s \in d[t] : s.id # self /\ \A c \in x.columns : s[c] = r[c] } }

UniqueViolationsTableArgsOnly(d, t, r, self) ==
  { u.name : u \in { x \in UniqueConstraints :
                       /\ x.table = t
                       /\ Cardinality(x.columns) > 1
                       /\ \E s \in d[t] : s.id # self /\ \A c \in x.columns : s[c] = r[c] } }

\* The unique constraints of the table on which r agrees with a row other
\* than `self`
UniqueViolations(d, t, r, self) ==
  { u.name : u \in { x \in UniqueConstraints :
                       /\ x.table = t
                       /\ \E s \in d[t] : s.id # self /\ \A c \in x.columns : s[c] = r[c] } }

\* Faulty variant: the connection does not enforce foreign keys.
ForeignKeyViolationsOff(d, t, r) == {}

\* A non-null foreign key of r that names no row of the parent table
ForeignKeyViolations(d, t, r) ==
  IF \E f \in ForeignKeys :
       f.table = t /\ r[f.column] # NULL /\ ~ Exists(d, f.parent, r[f.column])
    THEN {"FOREIGN KEY"} ELSE {}

\* The rows (as <<table, id>>) that reference a row of S through one of refs
ChildRefs(d, refs, S) ==
  UNION { {<<f.table, r.id>> : r \in {x \in d[f.table] : <<f.parent, x[f.column]>> \in S}}
          : f \in refs }

\* S with everything that references it through refs, transitively
RECURSIVE Closure(_, _, _)
Closure(d, refs, S) ==
  LET N == S \cup ChildRefs(d, refs, S)
  IN  IF N = S THEN S ELSE Closure(d, refs, N)

\* Faulty variant: ondelete="CASCADE" only on the columns a relationship with a
\* delete cascade joins on.
CascadeFKsOfRelationships ==
  {f \in ForeignKeys : /\ f.ondelete = "CASCADE"
                       /\ \E rel \in Relationships :
                            rel.table = f.table /\ rel.column = f.column}

\* ondelete="CASCADE" / ondelete="SET NULL"
CascadeFKs == {f \in ForeignKeys : f.ondelete = "CASCADE"}
SetNullFKs == {f \in ForeignKeys : f.ondelete = "SET NULL"}

RECURSIVE ClearColumns(_, _)
ClearColumns(r, cs) ==
  IF cs = {} THEN r
  ELSE LET c == CHOOSE x \in cs : TRUE
       IN  ClearColumns([r EXCEPT ![c] = NULL], cs \ {c})

\* A surviving row after the rows of S are gone: each SET NULL foreign key
\* that named a row of S is cleared.
Detach(t, r, S) ==
  ClearColumns(r, { f.column : f \in { x \in SetNullFKs :
                      x.table = t /\ <<x.parent, r[x.column]>> \in S } })

\* The rows that go when DELETE statements for the rows of S are executed:
\* those rows and, transitively, every row that references one of them
\* through an ON DELETE CASCADE foreign key
Gone(d, S) == Closure(d, CascadeFKs, S)

\* The store after those DELETE statements
DbDelete(d, S) ==
  [t \in Tables |-> {Detach(t, r, Gone(d, S)) : r \in {x \in d[t] : <<t, x.id>> \notin Gone(d, S)}}]

\* The objects session.delete(obj) marks deleted: obj and, through every
\* relationship whose cascade includes "delete", its loaded children.
OrmMarked(d, t, id) == Closure(d, Relationships, {<<t, id>>})

---------------------------------------------------------------------------
(* Operations on the store.  T is the set of tables the workload touches
   and cap the number of rows it may hold. *)

Statement(op, gone) == [op |-> op, gone |-> gone]

\* The constraints the database finds violated by row r of table t, which
\* replaces the row with primary key `self` (an UPDATE) or none (an INSERT)
Violations(d, t, r, self) ==
  (IF self = NULL THEN PrimaryKeyViolations(d, t, r) ELSE {})
    \cup UniqueViolations(d, t, r, self) \cup ForeignKeyViolations(d, t, r)

\* session.add(obj); flush  --  INSERT INTO t.  The row is stored, or the
\* statement raises IntegrityError for one of the constraints it violates
\* and stores nothing.
Insert(T, cap) ==
  /\ last' = Statement("insert", {})
  /\ UNCHANGED <<enumCols, enumIO, jobs>>
  /\ \/ /\ RowCount(db) < cap
        /\ \E t \in T : \E r \in Rows(t) :
             /\ Violations(db, t, r, NULL) = {}
             /\ db' = [db EXCEPT ![t] = @ \cup {r}]
        /\ result' = "ok"
     \/ /\ result' \in UNION {UNION {Violations(db, t, r, NULL) : r \in Rows(t)} : t \in T}
        /\ db' = db

\* The rows an UPDATE of the stored row s can produce: any assignment to
\* its columns other than the primary key
Updated(t, s) == {r \in Rows(t) : r.id = s.id} \ {s}

\* obj.c = v, ...; flush  --  UPDATE t SET c = v, ... WHERE id = ...
Update(T) ==
  /\ last' = Statement("update", {})
  /\ UNCHANGED <<enumCols, enumIO, jobs>>
  /\ \/ /\ \E t \in T : \E s \in db[t] : \E r \in Updated(t, s) :
             /\ Violations(db, t, r, s.id) = {}
             /\ db' = [db EXCEPT ![t] = (@ \ {s}) \cup {r}]
        /\ result' = "ok"
     \/ /\ result' \in UNION {UNION {UNION {Violations(db, t, r, s.id) : r \in Updated(t, s)}
                                    : s \in db[t]} : t \in T}
        /\ db' = db

\* DELETE FROM t WHERE id = ...  (a Core / bulk delete: no ORM cascade)
Delete(T) ==
  \E t \in T : \E s \in db[t] :
    /\ db' = DbDelete(db, {<<t, s.id>>})
    /\ result' = "ok"
    /\ last' = Statement("delete", Gone(db, {<<t, s.id>>}))
    /\ UNCHANGED <<enumCols, enumIO, jobs>>

\* session.delete(obj); flush: a DELETE for every object the relationships
\* mark, each with the database's ON DELETE actions.
OrmDelete(T) ==
  \E t \in T : \E s \in db[t] :
    /\ db' = DbDelete(db, OrmMarked(db, t, s.id))
    /\ result' = "ok"
    /\ last' = Statement("orm_delete", Gone(db, OrmMarked(db, t, s.id)))
    /\ UNCHANGED <<enumCols, enumIO, jobs>>

---------------------------------------------------------------------------
(* Enum-typed columns: marital_status, account_type, the two product_type
   columns and status.  A write goes through EnumBind, a read through
   EnumResult. *)

EnumColumns == {"marital_status", "account_type", "card_product_type",
                "credit_product_type", "status"}

EnumOf(col) ==
  CASE col = "marital_status" -> MaritalStatus
    [] col = "account_type" -> AccountType
    [] col = "card_product_type" -> CardProductType
    [] col = "credit_product_type" -> CreditProductType
    [] col = "status" -> PaymentStatus

\* What enumCols holds for a column before any row has been written
NoRow == "(no row)"

NotLoaded == [name |-> "not loaded", value |-> "not loaded"]
NoIO == [column |-> "none", written |-> NotLoaded, loaded |-> NotLoaded]

\* obj.<col> = member; flush: the column receives what the bind processor
\* makes of the member.
WriteEnum ==
  \E col \in EnumColumns : \E m \in Members(EnumOf(col)) :
    /\ enumCols' = [enumCols EXCEPT ![col] = EnumBind(m)]
    /\ enumIO' = [column |-> col, written |-> m, loaded |-> NotLoaded]
    /\ UNCHANGED <<db, result, last, jobs>>

\* session.refresh(obj): the attribute receives what the result processor
\* makes of the stored string.
ReadEnum ==
  /\ enumIO.column \in EnumColumns
  /\ enumIO.loaded = NotLoaded
  /\ enumIO' = [enumIO EXCEPT !.loaded = EnumResult(EnumOf(enumIO.column), enumCols[enumIO.column])]
  /\ UNCHANGED <<db, result, last, enumCols, jobs>>

---------------------------------------------------------------------------
(* Refresh jobs: two ingestion runs that each fetched one fact of a
   time-series table of the account cluster and add it to the store.  The
   job gives the columns of the fact; the id column (Integer,
   primary_key=True, no value given) is filled in by the database with a
   key the table does not hold. *)

Jobs == {"job1", "job2"}

RefreshTables == {"account_balances", "account_transactions"}

\* The columns of a row but its surrogate key: what the job fetched
Fact(t, r) ==
  CASE t = "account_balances" -> [account_id |-> r.account_id, as_of |-> r.as_of]
    [] t = "account_transactions" ->
         [account_id |-> r.account_id, posting_date |-> r.posting_date]

Facts(t) == {Fact(t, r) : r \in Rows(t)}

\* The keys autoincrement can hand out: any key the table does not hold
FreeIds(d, t) == {i \in Ids : ~ Exists(d, t, i)}

\* The rows session.add(Model(**fact)); flush can present
NewRows(d, t, f) == {r \in Rows(t) : Fact(t, r) = f /\ r.id \in FreeIds(d, t)}

NoFact == [account_id |-> NULL]
Idle == [pc |-> "idle", table |-> "none", fact |-> NoFact, outcome |-> "none"]

\* The job has read one fact from the external API
Fetch(j) ==
  /\ jobs[j].pc = "idle"
  /\ \E t \in RefreshTables : \E f \in Facts(t) :
       jobs' = [jobs EXCEPT ![j] = [pc |-> "fetched", table |-> t, fact |-> f,
                                    outcome |-> "none"]]
  /\ UNCHANGED <<db, result, last, enumCols, enumIO>>

\* session.add(Model(**fact)); commit: one INSERT, accepted or rejected by
\* the constraints of the table; the job keeps the outcome.
Write(j) ==
  /\ jobs[j].pc = "fetched"
  /\ \E r \in NewRows(db, jobs[j].table, jobs[j].fact) :
       \/ /\ Violations(db, jobs[j].table, r, NULL) = {}
          /\ db' = [db EXCEPT ![jobs[j].table] = @ \cup {r}]
          /\ result' = "ok"
       \/ /\ result' \in Violations(db, jobs[j].table, r, NULL)
          /\ db' = db
  /\ jobs' = [jobs EXCEPT ![j].pc = "written", ![j].outcome = result']
  /\ last' = Statement("insert", {})
  /\ UNCHANGED <<enumCols, enumIO>>

---------------------------------------------------------------------------
(* Specifications *)

Init ==
  /\ db = EmptyStore
  /\ result = "ok"
  /\ last = Statement("none", {})
  /\ enumCols = [col \in EnumColumns |-> NoRow]
  /\ enumIO = NoIO
  /\ jobs = [j \in Jobs |-> Idle]

\* The statements of a workload on the tables T, holding at most cap rows
Statements(T, cap) ==
  \/ Insert(T, cap)
  \/ Update(T)
  \/ Delete(T)
  \/ OrmDelete(T)

\* The whole schema
Next == Statements(Tables, MaxRows)

Spec == Init /\ [][Next]_vars

\* One cluster with the customer root it hangs from, with room for more rows
AccountCluster ==
  {"customer_core", "accounts", "account_balances", "account_transactions"}

CardCluster ==
  {"customer_core", "cards", "card_invoices", "card_transactions"}

NextAccounts == Statements(AccountCluster, MaxClusterRows)

SpecAccounts == Init /\ [][NextAccounts]_vars

NextCards == Statements(CardCluster, MaxClusterRows)

SpecCards == Init /\ [][NextCards]_vars

\* The Enum-typed columns of one row
\* The card cluster with room for two cards, an invoice and a transaction
NextBilling == Statements(CardCluster, MaxBillingRows)

SpecBilling == Init /\ [][NextBilling]_vars

\* Two refresh jobs of the account cluster, in every interleaving, over
\* the customers and accounts a workload has created
NextRefresh ==
  \/ Insert({"customer_core", "accounts"}, MaxRows)
  \/ \E j \in Jobs : Fetch(j)
  \/ \E j \in Jobs : Write(j)

SpecRefresh == Init /\ [][NextRefresh]_vars

NextEnum == WriteEnum \/ ReadEnum

SpecEnum == Init /\ [][NextEnum]_vars

---------------------------------------------------------------------------
(* Claims *)

\* The ownership graph of the claims: a row belongs to the row its column
\* names in the parent table.  (invoice_id is a link, not ownership.)
OwnershipGraph ==
  { REL("customer_core", "customer_contacts", "customer_id"),
    REL("customer_core", "accounts", "customer_id"),
    REL("accounts", "account_balances", "account_id"),
    REL("accounts", "account_transactions", "account_id"),
    REL("customer_core", "cards", "customer_id"),
    REL("cards", "card_invoices", "card_id"),
    REL("cards", "card_transactions", "card_id"),
    REL("customer_core", "credit_contracts", "customer_id"),
    REL("credit_contracts", "credit_schedules", "contract_id"),
    REL("credit_contracts", "collaterals", "contract_id"),
    REL("customer_core", "positions_funds", "customer_id"),
    REL("customer_core", "positions_fixed_income", "customer_id"),
    REL("customer_core", "positions_equity", "customer_id"),
    REL("customer_core", "positions_treasury", "customer_id"),
    REL("customer_core", "investment_movements", "customer_id"),
    REL("customer_core", "fx_operations", "customer_id"),
    REL("customer_core", "consents", "customer_id"),
    REL("consents", "consent_scopes", "consent_id"),
    REL("customer_core", "payment_orders", "customer_id") }

\* The rows customer c owns in store d, directly or transitively
Owned(d, c) ==
  Closure(d, OwnershipGraph, {<<"customer_core", c>>}) \ {<<"customer_core", c>>}

\* The row with primary key id of table t is in d and not in e
Removed(d, e, t, id) == Exists(d, t, id) /\ ~ Exists(e, t, id)

\* C1 (cascade completeness): a step that removes a customer_core row,
\* through session.delete or through a DELETE statement, removes every row
\* the customer owned before the step, directly or transitively.
C1_CascadeComplete ==
  [][\A c \in Ids :
       Removed(db, db', "customer_core", c) =>
         \A x \in Owned(db, c) : ~ Exists(db', x[1], x[2])]_vars

\* session.delete(customer) has removed a customer together with rows of two
\* tables CustomerCore declares no relationship to.
C1_Witness ==
  /\ last.op = "orm_delete"
  /\ \E c \in Ids : <<"customer_core", c>> \in last.gone
  /\ \E i \in Ids : <<"positions_equity", i>> \in last.gone
  /\ \E i \in Ids : <<"investment_movements", i>> \in last.gone
  /\ db = EmptyStore

\* At most one account_balances row per (account_id, as_of)
BalanceSnapshotUnique ==
  \A a \in db["account_balances"] : \A b \in db["account_balances"] :
    (a.account_id = b.account_id /\ a.as_of = b.as_of) => a = b

\* What the store decides for each balance a caller can present: one whose
\* (account_id, as_of) a stored row has violates uix_account_balance_as_of;
\* one with a fresh id, a stored account and a new (account_id, as_of)
\* violates nothing.
BalanceInsertDecided ==
  \A r \in Rows("account_balances") :
    LET taken == \E b \in db["account_balances"] :
                   b.account_id = r.account_id /\ b.as_of = r.as_of
        bad == Violations(db, "account_balances", r, NULL)
    IN  /\ taken => "uix_account_balance_as_of" \in bad
        /\ (/\ ~ taken
            /\ ~ Exists(db, "account_balances", r.id)
            /\ Exists(db, "accounts", r.account_id)) => bad = {}

\* C3 (balance snapshot uniqueness): there is at most one balance per
\* (account_id, as_of); an insert that repeats the (account_id, as_of) of a
\* stored row violates the constraint, one with a distinct as_of does not; a
\* rejected statement leaves the store unchanged; an accepted insert of a
\* balance adds exactly one row, whose (account_id, as_of) no row had before.
C3_BalanceUnique ==
  /\ []BalanceSnapshotUnique
  /\ []BalanceInsertDecided
  /\ [][/\ result' # "ok" => db' = db
        /\ (last'.op = "insert" /\ db'["account_balances"] # db["account_balances"]) =>
             \E r \in db'["account_balances"] :
               /\ r \notin db["account_balances"]
               /\ db'["account_balances"] = db["account_balances"] \cup {r}
               /\ ~ \E b \in db["account_balances"] :
                      b.account_id = r.account_id /\ b.as_of = r.as_of]_vars

\* An insert was just rejected for the balance constraint while the account
\* holds two snapshots with distinct as_of.
C3_Witness ==
  /\ result = "uix_account_balance_as_of"
  /\ last.op = "insert"
  /\ \E a \in db["account_balances"] : \E b \in db["account_balances"] :
       a.account_id = b.account_id /\ a.as_of # b.as_of

\* No two customers share a tax_id, no two cards a card_number
NaturalKeysUnique ==
  /\ \A a \in db["customer_core"] : \A b \in db["customer_core"] :
       a.tax_id = b.tax_id => a = b
  /\ \A a \in db["cards"] : \A b \in db["cards"] :
       a.card_number = b.card_number => a = b

\* What the store decides for each customer and card a caller can present:
\* a tax_id or card_number some stored row has, whoever owns it, violates
\* the column's unique constraint.
NaturalKeyInsertDecided ==
  /\ \A r \in Rows("customer_core") :
       (\E c \in db["customer_core"] : c.tax_id = r.tax_id) =>
         "customer_core.tax_id" \in Violations(db, "customer_core", r, NULL)
  /\ \A r \in Rows("cards") :
       (\E c \in db["cards"] : c.card_number = r.card_number) =>
         "cards.card_number" \in Violations(db, "cards", r, NULL)

\* C4 (natural-key uniqueness): tax_id and card_number are unique across
\* all customers; an insert that repeats one violates the constraint, and a
\* rejected statement leaves the store unchanged.
C4_NaturalKeyUnique ==
  /\ []NaturalKeysUnique
  /\ []NaturalKeyInsertDecided
  /\ [][result' # "ok" => db' = db]_vars

\* An insert was just rejected for the card_number constraint while two
\* customers exist and one of them holds a card.
C4_Witness ==
  /\ result = "cards.card_number"
  /\ last.op = "insert"
  /\ Cardinality(db["customer_core"]) = 2
  /\ Cardinality(db["cards"]) = 1

\* The parent table each foreign key column of the claim names
ParentTable(c) ==
  CASE c = "customer_id" -> "customer_core"
    [] c = "account_id" -> "accounts"
    [] c = "card_id" -> "cards"
    [] c = "invoice_id" -> "card_invoices"
    [] c = "contract_id" -> "credit_contracts"
    [] c = "consent_id" -> "consents"

ReferenceColumns ==
  {"customer_id", "account_id", "card_id", "invoice_id", "contract_id", "consent_id"}

\* Every non-null reference of every row names a row of the parent table
NoOrphanRows ==
  \A t \in Tables : \A r \in db[t] : \A c \in ReferenceColumns \cap DOMAIN r :
    r[c] # NULL => Exists(db, ParentTable(c), r[c])

\* Row r of table t names, in a reference column, a parent that is not stored
Dangling(t, r) ==
  \E c \in ReferenceColumns \cap DOMAIN r :
    r[c] # NULL /\ ~ Exists(db, ParentTable(c), r[c])

\* What the store decides for each row a caller can insert, and each row an
\* update can produce: one with a dangling reference violates a foreign key.
DanglingDecided ==
  \A t \in Tables :
    /\ \A r \in Rows(t) :
         Dangling(t, r) => "FOREIGN KEY" \in Violations(db, t, r, NULL)
    /\ \A s \in db[t] : \A r \in Updated(t, s) :
         Dangling(t, r) => "FOREIGN KEY" \in Violations(db, t, r, s.id)

C2_DetachNotCascade ==
  [][\A x \in db["card_transactions"] :
       (/\ x.invoice_id # NULL
        /\ Removed(db, db', "card_invoices", x.invoice_id)
        /\ Exists(db', "cards", x.card_id)) =>
         [x EXCEPT !.invoice_id = NULL] \in db'["card_transactions"]]_vars

Terminal == {EnumBind(COMPLETED), EnumBind(FAILED), EnumBind(CANCELLED)}

\* C5 (terminal states): the status of a stored payment order changes only
\* from PENDING to COMPLETED, FAILED or CANCELLED; a terminal status stays.
C5_TerminalStatus ==
  [][\A o \in db["payment_orders"] : \A n \in db'["payment_orders"] :
       (n.id = o.id /\ n.status # o.status) =>
         (o.status = EnumBind(PENDING) /\ n.status \in Terminal)]_vars

\* C6 (completion timestamp): a status change from PENDING to COMPLETED
\* leaves completed_at set, every other status change leaves it null.
C6_CompletedAt ==
  [][\A o \in db["payment_orders"] : \A n \in db'["payment_orders"] :
       (n.id = o.id /\ n.status # o.status) =>
         ((n.completed_at # NULL) <=>
            (o.status = EnumBind(PENDING) /\ n.status = EnumBind(COMPLETED)))]_vars

\* C7 (schedule contiguity): the installment numbers of the N schedule rows
\* of a contract are exactly 1..N.
C7_ScheduleContiguous ==
  \A c \in db["credit_contracts"] :
    LET S == {x \in db["credit_schedules"] : x.contract_id = c.id}
    IN  {x.installment_number : x \in S} = 1 .. Cardinality(S)

\* C9 (current-state positions): each position table holds at most one row
\* per customer and instrument.
C9_PositionPerInstrument ==
  /\ \A a \in db["positions_funds"] : \A b \in db["positions_funds"] :
       (a.customer_id = b.customer_id /\ a.fund_cnpj = b.fund_cnpj) => a = b
  /\ \A a \in db["positions_fixed_income"] : \A b \in db["positions_fixed_income"] :
       (a.customer_id = b.customer_id /\ a.instrument_id = b.instrument_id) => a = b
  /\ \A a \in db["positions_treasury"] : \A b \in db["positions_treasury"] :
       (a.customer_id = b.customer_id /\ a.instrument_id = b.instrument_id) => a = b
  /\ \A a \in db["positions_equity"] : \A b \in db["positions_equity"] :
       (a.customer_id = b.customer_id /\ a.ticker = b.ticker) => a = b

\* C10 (enumeration persistence): the string in an Enum column is the value
\* of the member written, and loading it back yields that member.
C10_EnumStoredAsValue ==
  /\ enumIO.column \in EnumColumns =>
       enumCols[enumIO.column] = enumIO.written.value
  /\ enumIO.loaded # NotLoaded => enumIO.loaded = enumIO.written

\* C11: when both refresh jobs have written the same fact of the same table
\* (the same balance snapshot, the same posted transaction), the store holds
\* that fact exactly once if a write was accepted and never twice, and a
\* write that added nothing reported a conflict to its job.
Holding(t, f) == {r \in db[t] : Fact(t, r) = f}

SameFactWritten(t) ==
  /\ \A j \in Jobs : jobs[j].pc = "written" /\ jobs[j].table = t
  /\ jobs["job1"].fact = jobs["job2"].fact

C11_IdempotentReingestion ==
  \A t \in RefreshTables :
    SameFactWritten(t) =>
      /\ Cardinality(Holding(t, jobs["job1"].fact)) <= 1
      /\ (\E j \in Jobs : jobs[j].outcome = "ok") =>
           Cardinality(Holding(t, jobs["job1"].fact)) = 1

\* C12: once a card transaction is billed (invoice_id not null) its invoice
\* link stays what it is in every later state in which the transaction
\* exists; a statement that would change the link does not succeed.
Billed(d) == {r \in d["card_transactions"] : r.invoice_id # NULL}

C12_OneWayBilling ==
  [][\A r \in Billed(db) : \A s \in db'["card_transactions"] :
       s.id = r.id => s.invoice_id = r.invoice_id]_vars

\* C13: a step that removes the header row of a cluster while its customer
\* stays (the row itself was deleted, through session.delete or through a
\* DELETE statement) removes that row and the rows it owns, directly or
\* transitively, and leaves every other row of every table as it was.
ClusterRoots == {g.table : g \in {x \in OwnershipGraph : x.parent = "customer_core"}}

OwnedBy(d, t, id) == Closure(d, OwnershipGraph, {<<t, id>>})

Without(d, S) == [u \in Tables |-> {r \in d[u] : <<u, r.id>> \notin S}]

HeaderDeleted(t, h) ==
  Removed(db, db', t, h.id) /\ Exists(db', "customer_core", h.customer_id)

C13_ClusterIndependence ==
  [][\A t \in ClusterRoots : \A h \in db[t] :
       HeaderDeleted(t, h) => db' = Without(db, OwnedBy(db, t, h.id))]_vars

=============================================================================
